---- MODULE Spec2Model ----
(***************************************************************************)
(* The refactored VideoBufferTracker class with its services               *)
(* BufferCalculationService, AnalyticsService, VideoSizeService and the    *)
(* EventManager.                                                           *)
(*                                                                         *)
(* Times are integer ticks, byte offsets are integers; the quotient        *)
(* floor((t / duration) * totalSize) is computed exactly.  Every handler   *)
(* runs from its entry to its first suspension point (an await on the user *)
(* callback, on fetch, or on the size probe) in one step; each resumption  *)
(* is a step of its own.                                                   *)
(***************************************************************************)
EXTENDS Integers, Sequences, FiniteSets, TLC

\* ------------------------------------------------------------------ bounds
MaxTime == 5
MaxInflight == 2
MaxSetups == 2
TotalSize == 3
SmallSize == 1
MaxRanges == 3
MergeMaxTime == 3
MaxEpsilon == 2
ByteMaxTime == 4
ByteMaxSize == 4
CoverMaxTime == 4
CoverMaxRanges == 2
CoverMaxDuration == 6
TotalsMaxTime == 5
TotalsMaxSize == 6

\* ------------------------------------------------------------- input sets
Durations == {0, MaxTime}
PlaybackTimes == {0, MaxTime - 1, MaxTime}
Urls == {"https://cdn.example/video.mp4"}
SmallUrl == "https://cdn.example/clip.mp4"
EpsilonChoices == {1}
ThrottleChoices == {2}
ThresholdChoices == {1}
CallbackChoices == BOOLEAN
UrlChoices == BOOLEAN

Max(a, b) == IF a >= b THEN a ELSE b
Min(a, b) == IF a <= b THEN a ELSE b

BufferedRange(s, e) == [start |-> s, end |-> e]

RECURSIVE SetToSeq(_)
SetToSeq(S) ==
  IF S = {} THEN <<>>
  ELSE LET m == CHOOSE x \in S : \A y \in S : x <= y
       IN  <<m>> \o SetToSeq(S \ {m})

PairUp(q) == [i \in 1..(Len(q) \div 2) |-> BufferedRange(q[2 * i - 1], q[2 * i])]

\* The values of HTMLMediaElement.buffered: sorted, disjoint, non-adjacent.
RangePoints == {0, 2, 3, MaxTime}

TimeRanges ==
  {PairUp(SetToSeq(S)) :
     S \in {X \in SUBSET RangePoints : Cardinality(X) % 2 = 0}}

\* The Content-Length the server reports for url.
SizeOf(url) == IF url = SmallUrl THEN SmallSize ELSE TotalSize

\* ------------------------------------------- BufferCalculationService
getBufferedRanges(buf) ==
  SelectSeq(buf, LAMBDA r : r.start >= 0 /\ r.end > r.start)

ReversedIdx(ranges, todo) ==
  [k \in 1..Cardinality(todo) |-> Cardinality(todo) + 1 - k]

RECURSIVE SortedIdx(_, _)
SortedIdx(ranges, todo) ==
  IF todo = {} THEN <<>>
  ELSE LET i == CHOOSE x \in todo : \A y \in todo :
                  \/ ranges[x].start < ranges[y].start
                  \/ (ranges[x].start = ranges[y].start /\ x <= y)
       IN  <<i>> \o SortedIdx(ranges, todo \ {i})

MergeTestStrict(gap, epsilon) == gap < epsilon

MergeTest(gap, epsilon) == gap <= epsilon

\* The sweep works on object references: objs[i] is the range object that
\* the caller's array holds at index i, merged is the list of references
\* pushed to the output, and last.end = ... writes through the reference.
RECURSIVE mergeSweep(_, _, _, _)
mergeSweep(order, objs, merged, epsilon) ==
  IF order = <<>> THEN [objs |-> objs, merged |-> merged]
  ELSE LET i == Head(order) IN
       IF merged = <<>> THEN mergeSweep(Tail(order), objs, <<i>>, epsilon)
       ELSE LET l == merged[Len(merged)] IN
            IF MergeTest(objs[i].start - objs[l].end, epsilon)
            THEN mergeSweep(Tail(order),
                            [objs EXCEPT ![l].end = Max(objs[l].end, objs[i].end)],
                            merged, epsilon)
            ELSE mergeSweep(Tail(order), objs, Append(merged, i), epsilon)

mergeRun(ranges, epsilon) ==
  mergeSweep(SortedIdx(ranges, DOMAIN ranges), ranges, <<>>, epsilon)

mergeRanges(ranges, epsilon) ==
  IF Len(ranges) = 0 THEN ranges
  ELSE LET r == mergeRun(ranges, epsilon)
       IN  [k \in 1..Len(r.merged) |-> r.objs[r.merged[k]]]

\* The caller's array after mergeRanges returned (its objects were written).
mergeRangesArg(ranges, epsilon) ==
  IF Len(ranges) = 0 THEN ranges ELSE mergeRun(ranges, epsilon).objs

RECURSIVE coveredSum(_)
coveredSum(merged) ==
  IF merged = <<>> THEN 0
  ELSE Max(0, Head(merged).end - Head(merged).start) + coveredSum(Tail(merged))

isFullyDownloadedNoTolerance(ranges, duration, epsilon) ==
  IF Len(ranges) = 0 \/ duration <= 0 THEN FALSE
  ELSE coveredSum(mergeRanges(ranges, epsilon)) >= duration

isFullyDownloadedExactMerge(ranges, duration, epsilon) ==
  IF Len(ranges) = 0 \/ duration <= 0 THEN FALSE
  ELSE coveredSum(mergeRanges(ranges, 0)) >= duration - epsilon

isFullyDownloaded(ranges, duration, epsilon) ==
  IF Len(ranges) = 0 \/ duration <= 0 THEN FALSE
  ELSE coveredSum(mergeRanges(ranges, epsilon)) >= duration - epsilon

NullRange == [start |-> -1, end |-> -1]

timeToByteRangeUnclamped(startTime, endTime, duration, totalSize) ==
  IF duration = 0 \/ totalSize = 0 \/ startTime < 0 \/ endTime <= startTime
  THEN NullRange
  ELSE LET start == Max(0, (startTime * totalSize) \div duration)
           end == (endTime * totalSize) \div duration
       IN  IF end <= start THEN NullRange ELSE [start |-> start, end |-> end]

timeToByteRangeKeepsDegenerate(startTime, endTime, duration, totalSize) ==
  IF duration = 0 \/ totalSize = 0 \/ startTime < 0 \/ endTime <= startTime
  THEN NullRange
  ELSE [start |-> Max(0, (startTime * totalSize) \div duration),
        end |-> Min(totalSize - 1, (endTime * totalSize) \div duration)]

timeToByteRange(startTime, endTime, duration, totalSize) ==
  IF duration = 0 \/ totalSize = 0 \/ startTime < 0 \/ endTime <= startTime
  THEN NullRange
  ELSE LET start == Max(0, (startTime * totalSize) \div duration)
           end == Min(totalSize - 1, (endTime * totalSize) \div duration)
       IN  IF end <= start THEN NullRange ELSE [start |-> start, end |-> end]

\* timeToByteRange of the legacy tracker class: no check of the times, and
\* the end byte is one less before it is clamped.
legacyTimeToByteRange(startTime, endTime, duration, totalSize) ==
  IF duration = 0 \/ totalSize = 0
  THEN NullRange
  ELSE LET start == Max(0, (startTime * totalSize) \div duration)
           end == Min(totalSize - 1,
                      ((endTime * totalSize) \div duration) - 1)
       IN  IF end <= start THEN NullRange ELSE [start |-> start, end |-> end]

RECURSIVE calculateTotalBytes(_, _, _)
calculateTotalBytes(ranges, duration, totalSize) ==
  IF ranges = <<>> THEN 0
  ELSE LET byteRange == timeToByteRange(Head(ranges).start, Head(ranges).end,
                                        duration, totalSize)
           rest == calculateTotalBytes(Tail(ranges), duration, totalSize)
       IN  IF byteRange = NullRange THEN rest
           ELSE (byteRange.end - byteRange.start + 1) + rest

\* ----------------------------------------------------------------- state
VARIABLES
  config,                    \* constructor options
  videoInfo,                 \* VideoBufferTracker.videoInfo (NoVideo = undefined)
  estimatedDownloadedBytes,
  submittedBytesBaseline,
  hasSubmittedFullDownload,
  lastProbedEnd,
  isTracking,
  isAttached,                \* eventManager.isAttached (FALSE when there is none)
  listeners,                 \* listeners registered on video / window / document
  buffered,                  \* video.buffered
  cache,                     \* VideoSizeService.cache (its keys)
  pendingSetups,             \* setupVideoTracking calls awaiting getVideoSize
  inflight,                  \* handleBufferData calls suspended at an await
  obs,                       \* what the last step did (rec, failed: a record's file_size)
  quiet,                     \* a finalize trigger ran and buffered is unchanged since
  prevTotal,                 \* totalBytes of the last final probe of the session
  failedDelta,               \* file_size of a finalize record whose delivery failed
  destroyed,                 \* destroy() ran; no setup was called or completed since
  call                       \* a call of a pure service function and its result,
                             \* or the ledger of the records of the session

vars == <<config, videoInfo, estimatedDownloadedBytes, submittedBytesBaseline,
          hasSubmittedFullDownload, lastProbedEnd, isTracking, isAttached,
          listeners, buffered, cache, pendingSetups, inflight, obs, quiet,
          prevTotal, failedDelta, destroyed, call>>

NoVideo == [url |-> "", duration |-> 0, totalSize |-> 0]

NoListeners ==
  [progress |-> 0, timeupdate |-> 0, beforeunload |-> 0, pagehide |-> 0,
   visibilitychange |-> 0]

NoCall == [fn |-> "none"]

\* The ledger of a tracking session: the sum of file_size over the records
\* produced in it (counted up to LedgerCap); whether its records all came
\* from final probes whose totalBytes never decreased and stayed below
\* totalSize; whether it opened with nothing submitted.
LedgerCap == TotalSize + 2

NewLedger == [fn |-> "ledger", sum |-> 0, mono |-> TRUE, clean |-> TRUE]

Obs(op) ==
  [op |-> op, trigger |-> FALSE, evaluated |-> FALSE, full |-> FALSE,
   rec |-> -1, sinkCb |-> FALSE, sinkNet |-> FALSE, again |-> FALSE,
   overlap |-> FALSE, failed |-> 0, remaining |-> -1]

ConfigSpace ==
  [onBufferData : CallbackChoices, trafficEventUrl : UrlChoices,
   progressThrottle : ThrottleChoices, finalProbeThreshold : ThresholdChoices,
   rangeMergeEpsilon : EpsilonChoices]

TrackerInit ==
  /\ videoInfo = NoVideo
  /\ estimatedDownloadedBytes = 0
  /\ submittedBytesBaseline = 0
  /\ hasSubmittedFullDownload = FALSE
  /\ lastProbedEnd = -1
  /\ isTracking = FALSE
  /\ isAttached = FALSE
  /\ listeners = NoListeners
  /\ cache = {}
  /\ pendingSetups = <<>>
  /\ inflight = <<>>
  /\ obs = Obs("new")
  /\ quiet = FALSE
  /\ prevTotal = -1
  /\ failedDelta = 0
  /\ destroyed = FALSE

Init ==
  /\ config \in ConfigSpace
  /\ buffered \in TimeRanges
  /\ TrackerInit
  /\ call = NoCall

\* The ledger after a step with observation o, pt being the totalBytes of
\* the last final probe after the step.  Only kept where a ledger was opened.
Ledger(o, pt) ==
  IF call.fn # "ledger" THEN call
  ELSE [call EXCEPT
          !.sum = Min(LedgerCap, @ + Max(0, o.rec)),
          !.mono = /\ @
                   /\ o.rec >= 0 => o.trigger
                   /\ o.trigger /\ o.evaluated
                        => pt >= prevTotal /\ pt < videoInfo.totalSize]

LedgerReset ==
  IF call.fn # "ledger" THEN call
  ELSE [NewLedger EXCEPT !.clean = submittedBytesBaseline = 0]

\* ------------------------------------------------------------ environment
Grown(old, new) ==
  \A i \in DOMAIN old : \E j \in DOMAIN new :
     new[j].start <= old[i].start /\ old[i].end <= new[j].end

BufferChange ==
  /\ \E b \in TimeRanges \ {buffered} :
       /\ buffered' = b
       /\ failedDelta' = IF Grown(buffered, b) THEN failedDelta ELSE 0
  /\ quiet' = FALSE
  /\ obs' = Obs("Env")
  /\ UNCHANGED <<config, videoInfo, estimatedDownloadedBytes,
                 submittedBytesBaseline, hasSubmittedFullDownload,
                 lastProbedEnd, isTracking, isAttached, listeners, cache,
                 pendingSetups, inflight, prevTotal, destroyed, call>>

\* ------------------------------------------------------ emission (sinks)
Remove(s, i) == [k \in 1..(Len(s) - 1) |-> IF k < i THEN s[k] ELSE s[k + 1]]

\* A suspended call of an earlier session: only its stage still matters.
Stale(s) ==
  [k \in DOMAIN s |-> [s[k] EXCEPT !.kind = "other", !.size = 0, !.total = 0]]

FinalizeInFlight == \E i \in DOMAIN inflight : inflight[i].kind = "finalize"

\* A suspended handleBufferData call: where it waits, whether its record came
\* from a final probe of the current session, and then the record's file_size
\* and the totalBytes that probe computed.
Pending(stage, size, kind, total) ==
  [stage |-> stage, size |-> IF kind = "finalize" THEN size ELSE 0,
   kind |-> kind, total |-> IF kind = "finalize" THEN total ELSE 0]

\* The suspended calls are unordered: they are kept in one canonical order.
PendingKey(e) ==
  (IF e.stage = "fetch" THEN 1000 ELSE 0)
  + (IF e.kind = "finalize" THEN 0 ELSE 100)
  + e.size
  + 10 * e.total

RECURSIVE Canon(_)
Canon(s) ==
  IF s = <<>> THEN <<>>
  ELSE LET i == CHOOSE x \in DOMAIN s :
                  \A y \in DOMAIN s : PendingKey(s[x]) <= PendingKey(s[y])
       IN  <<s[i]>> \o Canon(Remove(s, i))

NothingToSendNegative(est1) == est1 < 0

\* The first line of handleBufferData.
NothingToSend(est1) == est1 <= 0

\* handleBufferData from its entry to its first await.  est1 and lpe1 are the
\* values of estimatedDownloadedBytes and lastProbedEnd when it is called,
\* total is the totalBytes of the final probe that calls it (0 otherwise), o
\* is the observation of the step so far.  callUserCallback invokes the
\* callback before it suspends; without a callback sendBufferData starts the
\* fetch before it suspends; without either sink the rest of the function
\* runs as a microtask, before any other handler.
handleBufferData(est1, lpe1, kind, total, o) ==
  IF NothingToSend(est1)
  THEN /\ estimatedDownloadedBytes' = est1
       /\ lastProbedEnd' = lpe1
       /\ inflight' = inflight
       /\ obs' = o
  ELSE IF config.onBufferData
  THEN /\ Len(inflight) < MaxInflight
       /\ inflight' = Canon(Append(inflight, Pending("callback", est1, kind, total)))
       /\ estimatedDownloadedBytes' = est1
       /\ lastProbedEnd' = lpe1
       /\ obs' = [o EXCEPT !.rec = est1, !.sinkCb = TRUE]
  ELSE IF config.trafficEventUrl
  THEN /\ Len(inflight) < MaxInflight
       /\ inflight' = Canon(Append(inflight, Pending("fetch", est1, kind, total)))
       /\ estimatedDownloadedBytes' = est1
       /\ lastProbedEnd' = lpe1
       /\ obs' = [o EXCEPT !.rec = est1, !.sinkNet = TRUE]
  ELSE /\ inflight' = inflight
       /\ estimatedDownloadedBytes' = 0
       /\ lastProbedEnd' = -1
       /\ obs' = [o EXCEPT !.rec = est1]

\* The user callback returned (or its promise resolved): handleBufferData
\* goes on to sendBufferData, which returns false at once without a URL.
CallbackResolve ==
  /\ \E i \in DOMAIN inflight :
       /\ inflight[i].stage = "callback"
       /\ IF config.trafficEventUrl
          THEN /\ inflight' = Canon([inflight EXCEPT ![i].stage = "fetch"])
               /\ obs' = [Obs("CallbackResolve") EXCEPT !.sinkNet = TRUE]
               /\ UNCHANGED <<estimatedDownloadedBytes, lastProbedEnd>>
          ELSE /\ inflight' = Remove(inflight, i)
               /\ obs' = Obs("CallbackResolve")
               /\ estimatedDownloadedBytes' = 0
               /\ lastProbedEnd' = -1
  /\ UNCHANGED <<config, videoInfo, submittedBytesBaseline,
                 hasSubmittedFullDownload, isTracking, isAttached, listeners,
                 buffered, cache, pendingSetups, quiet, prevTotal, failedDelta,
                 destroyed, call>>

\* The user callback threw (or its promise rejected): callUserCallback
\* rethrows, handleBufferData's catch logs, nothing is reset or sent.
CallbackReject ==
  /\ \E i \in DOMAIN inflight :
       /\ inflight[i].stage = "callback"
       /\ inflight' = Remove(inflight, i)
       /\ obs' = [Obs("CallbackReject") EXCEPT !.failed = inflight[i].size]
       /\ failedDelta' = IF inflight[i].kind = "finalize"
                         THEN inflight[i].size ELSE failedDelta
  /\ UNCHANGED <<config, videoInfo, estimatedDownloadedBytes,
                 submittedBytesBaseline, hasSubmittedFullDownload,
                 lastProbedEnd, isTracking, isAttached, listeners, buffered,
                 cache, pendingSetups, quiet, prevTotal, destroyed, call>>

\* sendBufferData returned (true or false): handleBufferData ignores the
\* result and resets the estimate.
sendBufferDataReturned(op, ok) ==
  /\ \E i \in DOMAIN inflight :
       /\ inflight[i].stage = "fetch"
       /\ inflight' = Remove(inflight, i)
       /\ obs' = [Obs(op) EXCEPT
                    !.failed = IF ok THEN 0 ELSE inflight[i].size]
       /\ failedDelta' = IF ~ok /\ inflight[i].kind = "finalize"
                         THEN inflight[i].size ELSE failedDelta
  /\ estimatedDownloadedBytes' = 0
  /\ lastProbedEnd' = -1
  /\ UNCHANGED <<config, videoInfo, submittedBytesBaseline,
                 hasSubmittedFullDownload, isTracking, isAttached, listeners,
                 buffered, cache, pendingSetups, quiet, prevTotal, destroyed,
                 call>>

FetchResolve == sendBufferDataReturned("FetchResolve", TRUE)

FetchReject == sendBufferDataReturned("FetchReject", FALSE)

\* ------------------------------------------------------- final probe path
NewBaselineKept(totalBytes, baseline) == baseline

NewBaseline(totalBytes, baseline) == totalBytes

DeltaBytesAbsolute(totalBytes, baseline) == totalBytes

DeltaBytesSinceProbe(totalBytes, baseline) ==
  IF lastProbedEnd >= 0 THEN totalBytes ELSE Max(0, totalBytes - baseline)

DeltaBytes(totalBytes, baseline) == Max(0, totalBytes - baseline)

updateDownloadMetrics(totalBytes, o) ==
  LET deltaBytes == DeltaBytes(totalBytes, submittedBytesBaseline) IN
  /\ hasSubmittedFullDownload' =
       (hasSubmittedFullDownload
          \/ (videoInfo # NoVideo /\ totalBytes >= videoInfo.totalSize))
  /\ handleBufferData(deltaBytes, lastProbedEnd, "finalize", totalBytes, o)
  /\ submittedBytesBaseline' = NewBaseline(totalBytes, submittedBytesBaseline)

ProbeGuardVideoOnly(ranges) == videoInfo = NoVideo

\* The early returns of performFinalProbe.
ProbeGuard(ranges) ==
  \/ videoInfo = NoVideo
  \/ videoInfo.duration = 0
  \/ videoInfo.totalSize = 0
  \/ Len(ranges) = 0

performFinalProbe(o) ==
  LET ranges == getBufferedRanges(buffered) IN
  IF ProbeGuard(ranges)
  THEN /\ obs' = o
       /\ UNCHANGED <<estimatedDownloadedBytes, submittedBytesBaseline,
                      hasSubmittedFullDownload, lastProbedEnd, inflight,
                      prevTotal>>
  ELSE LET totalBytes == calculateTotalBytes(ranges, videoInfo.duration,
                                             videoInfo.totalSize)
       IN  /\ updateDownloadMetrics(totalBytes,
                 [o EXCEPT !.evaluated = TRUE])
           /\ prevTotal' = totalBytes

\* The observation of a step that calls performFinalProbe or onFinalize.
TriggerObs(op) ==
  [Obs(op) EXCEPT !.trigger = TRUE, !.again = quiet,
                  !.overlap = FinalizeInFlight]

FinalizeGuardNoFlag == ~isTracking

FinalizeGuard == ~isTracking \/ hasSubmittedFullDownload

\* The handler made by createFinalizeHandler.
onFinalize(op) ==
  /\ IF FinalizeGuard
     THEN /\ obs' = TriggerObs(op)
          /\ UNCHANGED <<estimatedDownloadedBytes, submittedBytesBaseline,
                         hasSubmittedFullDownload, lastProbedEnd, inflight,
                         prevTotal>>
     ELSE performFinalProbe(TriggerObs(op))
  /\ quiet' = isTracking
  /\ failedDelta' = 0
  /\ UNCHANGED <<config, videoInfo, isTracking, isAttached, listeners,
                 buffered, cache, pendingSetups, destroyed>>
  /\ call' = Ledger(obs', prevTotal')

BeforeUnload ==
  /\ listeners.beforeunload > 0
  /\ onFinalize("Finalize")

PageHide ==
  /\ listeners.pagehide > 0
  /\ onFinalize("Finalize")

\* EventManager.handleVisibilityChange with visibilityState = "hidden".
VisibilityHidden ==
  /\ listeners.visibilitychange > 0
  /\ onFinalize("Finalize")

\* EventManager.handleVisibilityChange with visibilityState = "visible".
VisibilityVisible ==
  /\ listeners.visibilitychange > 0
  /\ obs' = Obs("Env")
  /\ UNCHANGED <<config, videoInfo, estimatedDownloadedBytes,
                 submittedBytesBaseline, hasSubmittedFullDownload,
                 lastProbedEnd, isTracking, isAttached, listeners, buffered,
                 cache, pendingSetups, inflight, quiet, prevTotal,
                 failedDelta, destroyed, call>>

\* ---------------------------------------------------------- progress path
HandlerGuard == videoInfo = NoVideo \/ ~isTracking \/ hasSubmittedFullDownload

\* ranges is the array the progress handler holds after isFullyDownloaded
\* returned, i.e. after mergeRanges wrote to its objects.
ThrottledNever(end) == FALSE

\* The throttle test of updateProgressEstimate, progressThrottleMs / 1000
\* being config.progressThrottle.
Throttled(end) ==
  lastProbedEnd >= 0 /\ end - lastProbedEnd < config.progressThrottle

updateProgressEstimateEmits(ranges, o) ==
  /\ handleBufferData(
       calculateTotalBytes(ranges, videoInfo.duration, videoInfo.totalSize),
       ranges[Len(ranges)].end, "other", 0, o)
  /\ UNCHANGED <<submittedBytesBaseline, hasSubmittedFullDownload>>

updateProgressEstimate(ranges, o) ==
  LET end == ranges[Len(ranges)].end IN
  /\ IF Throttled(end)
     THEN /\ obs' = o
          /\ UNCHANGED <<estimatedDownloadedBytes, lastProbedEnd>>
     ELSE LET totalBytes == calculateTotalBytes(ranges, videoInfo.duration,
                                                videoInfo.totalSize)
          IN  /\ lastProbedEnd' = end
              /\ estimatedDownloadedBytes' =
                   IF totalBytes > 0 THEN totalBytes
                   ELSE estimatedDownloadedBytes
              /\ obs' = o
  /\ UNCHANGED <<submittedBytesBaseline, hasSubmittedFullDownload, inflight>>

handleFullDownload(o) ==
  /\ hasSubmittedFullDownload' = TRUE
  /\ handleBufferData(videoInfo.totalSize - submittedBytesBaseline,
                      lastProbedEnd, "other", 0, o)
  /\ UNCHANGED submittedBytesBaseline

\* The handler made by createProgressHandler.
Progress ==
  /\ listeners.progress > 0
  /\ LET ranges == getBufferedRanges(buffered) IN
     IF \/ HandlerGuard
        \/ videoInfo.duration = 0
        \/ videoInfo.totalSize = 0
        \/ Len(ranges) = 0
     THEN /\ obs' = Obs("Progress")
          /\ UNCHANGED <<estimatedDownloadedBytes, submittedBytesBaseline,
                         hasSubmittedFullDownload, lastProbedEnd, inflight>>
     ELSE IF isFullyDownloaded(ranges, videoInfo.duration,
                               config.rangeMergeEpsilon)
     THEN handleFullDownload(
            [Obs("Progress") EXCEPT !.evaluated = TRUE, !.full = TRUE])
     ELSE updateProgressEstimate(
            mergeRangesArg(ranges, config.rangeMergeEpsilon),
            [Obs("Progress") EXCEPT !.evaluated = TRUE])
  /\ UNCHANGED <<config, videoInfo, isTracking, isAttached, listeners,
                 buffered, cache, pendingSetups, quiet, prevTotal,
                 failedDelta, destroyed>>
  /\ call' = Ledger(obs', prevTotal)

NearEndStrict(remaining) == remaining < config.finalProbeThreshold

\* The test of the time-update handler on remaining = duration - currentTime.
NearEnd(remaining) == remaining <= config.finalProbeThreshold

\* The handler made by createTimeUpdateHandler; currentTime is read from the
\* video element.
TimeUpdate ==
  /\ listeners.timeupdate > 0
  /\ \E currentTime \in PlaybackTimes :
       LET remaining == videoInfo.duration - currentTime IN
       IF HandlerGuard \/ videoInfo.duration = 0
       THEN /\ obs' = Obs("TimeUpdate")
            /\ UNCHANGED <<estimatedDownloadedBytes, submittedBytesBaseline,
                           hasSubmittedFullDownload, lastProbedEnd, inflight,
                           prevTotal, quiet, failedDelta>>
       ELSE IF ~NearEnd(remaining)
       THEN /\ obs' = [Obs("TimeUpdate") EXCEPT !.remaining = remaining]
            /\ UNCHANGED <<estimatedDownloadedBytes, submittedBytesBaseline,
                           hasSubmittedFullDownload, lastProbedEnd, inflight,
                           prevTotal, quiet, failedDelta>>
       ELSE /\ performFinalProbe(
                 [TriggerObs("TimeUpdate") EXCEPT !.remaining = remaining])
            /\ quiet' = isTracking
            /\ failedDelta' = 0
  /\ UNCHANGED <<config, videoInfo, isTracking, isAttached, listeners,
                 buffered, cache, pendingSetups, destroyed>>
  /\ call' = Ledger(obs', prevTotal')

\* ------------------------------------------------------- setup and destroy
Attached(l) ==
  [progress |-> l.progress + 1, timeupdate |-> l.timeupdate + 1,
   beforeunload |-> l.beforeunload + 1, pagehide |-> l.pagehide + 1,
   visibilitychange |-> l.visibilitychange + 1]

\* removeEventListener is given a fresh handleVisibilityChange.bind(this),
\* which is not the function that was added: that listener stays.
Detached(l) ==
  [progress |-> l.progress - 1, timeupdate |-> l.timeupdate - 1,
   beforeunload |-> l.beforeunload - 1, pagehide |-> l.pagehide - 1,
   visibilitychange |-> l.visibilitychange]

\* setupVideoTracking after getVideoSize returned totalSize: duration is
\* video.duration || 0 at that moment; setupEventHandlers makes a new
\* EventManager and attaches it.
completeSetup(url, duration) ==
  /\ videoInfo' = [url |-> url, duration |-> duration, totalSize |-> SizeOf(url)]
  /\ listeners' = Attached(listeners)
  /\ isAttached' = TRUE
  /\ isTracking' = TRUE
  /\ cache' = cache \cup {url}
  /\ inflight' = Canon(Stale(inflight))
  /\ quiet' = FALSE
  /\ prevTotal' = -1
  /\ failedDelta' = 0
  /\ call' = LedgerReset
  /\ UNCHANGED <<config, estimatedDownloadedBytes, submittedBytesBaseline,
                 hasSubmittedFullDownload, lastProbedEnd, buffered>>

SetupRoom == listeners.visibilitychange + Len(pendingSetups) < MaxSetups

\* validateVideoElement or validateVideoUrl throws.
SetupInvalid ==
  /\ obs' = Obs("SetupFailed")
  /\ UNCHANGED <<config, videoInfo, estimatedDownloadedBytes,
                 submittedBytesBaseline, hasSubmittedFullDownload,
                 lastProbedEnd, isTracking, isAttached, listeners, buffered,
                 cache, pendingSetups, inflight, quiet, prevTotal,
                 failedDelta, destroyed, call>>

\* getVideoSize finds the URL in its cache: the call completes without
\* yielding to another handler.
SetupCached ==
  /\ SetupRoom
  /\ \E url \in cache, duration \in Durations : completeSetup(url, duration)
  /\ obs' = Obs("SetupDone")
  /\ destroyed' = FALSE
  /\ UNCHANGED pendingSetups

\* getVideoSize starts the HEAD request.
SetupStartOf(urls) ==
  /\ SetupRoom
  /\ \E url \in urls \ cache : pendingSetups' = Append(pendingSetups, url)
  /\ obs' = Obs("SetupStart")
  /\ destroyed' = FALSE
  /\ UNCHANGED <<config, videoInfo, estimatedDownloadedBytes,
                 submittedBytesBaseline, hasSubmittedFullDownload,
                 lastProbedEnd, isTracking, isAttached, listeners, buffered,
                 cache, inflight, quiet, prevTotal, failedDelta, call>>

SetupStart == SetupStartOf(Urls)

\* The HEAD request answered with a valid Content-Length.
SetupResolve ==
  /\ \E i \in DOMAIN pendingSetups, duration \in Durations :
       /\ completeSetup(pendingSetups[i], duration)
       /\ pendingSetups' = Remove(pendingSetups, i)
  /\ obs' = Obs("SetupDone")
  /\ destroyed' = FALSE

SetupRejectStopsTracking ==
  /\ \E i \in DOMAIN pendingSetups : pendingSetups' = Remove(pendingSetups, i)
  /\ obs' = Obs("SetupFailed")
  /\ isTracking' = FALSE
  /\ videoInfo' = NoVideo
  /\ UNCHANGED <<config, estimatedDownloadedBytes, submittedBytesBaseline,
                 hasSubmittedFullDownload, lastProbedEnd, isAttached,
                 listeners, buffered, cache, inflight, quiet, prevTotal,
                 failedDelta, destroyed, call>>

\* The HEAD request failed, or had no usable Content-Length: getVideoSize
\* throws and setupVideoTracking rethrows.
SetupReject ==
  /\ \E i \in DOMAIN pendingSetups : pendingSetups' = Remove(pendingSetups, i)
  /\ obs' = Obs("SetupFailed")
  /\ UNCHANGED <<config, videoInfo, estimatedDownloadedBytes,
                 submittedBytesBaseline, hasSubmittedFullDownload,
                 lastProbedEnd, isTracking, isAttached, listeners, buffered,
                 cache, inflight, quiet, prevTotal, failedDelta, destroyed,
                 call>>

DestroyKeepsBaseline ==
  /\ IF isAttached
     THEN listeners' = Detached(listeners)
     ELSE listeners' = listeners
  /\ isAttached' = FALSE
  /\ isTracking' = FALSE
  /\ videoInfo' = NoVideo
  /\ estimatedDownloadedBytes' = 0
  /\ submittedBytesBaseline' = submittedBytesBaseline
  /\ hasSubmittedFullDownload' = FALSE
  /\ lastProbedEnd' = -1
  /\ inflight' = Canon(Stale(inflight))
  /\ quiet' = FALSE
  /\ prevTotal' = -1
  /\ failedDelta' = 0
  /\ destroyed' = TRUE
  /\ obs' = Obs("Destroy")
  /\ call' = LedgerReset
  /\ UNCHANGED <<config, buffered, cache, pendingSetups>>

Destroy ==
  /\ IF isAttached
     THEN listeners' = Detached(listeners)
     ELSE listeners' = listeners
  /\ isAttached' = FALSE
  /\ isTracking' = FALSE
  /\ videoInfo' = NoVideo
  /\ estimatedDownloadedBytes' = 0
  /\ submittedBytesBaseline' = 0
  /\ hasSubmittedFullDownload' = FALSE
  /\ lastProbedEnd' = -1
  /\ inflight' = Canon(Stale(inflight))
  /\ quiet' = FALSE
  /\ prevTotal' = -1
  /\ failedDelta' = 0
  /\ destroyed' = TRUE
  /\ obs' = Obs("Destroy")
  /\ call' = LedgerReset
  /\ UNCHANGED <<config, buffered, cache, pendingSetups>>

Next ==
  \/ Progress
  \/ TimeUpdate
  \/ SetupInvalid
  \/ SetupCached
  \/ SetupStart
  \/ SetupResolve
  \/ SetupReject
  \/ Destroy
  \/ BufferChange
  \/ CallbackResolve
  \/ CallbackReject
  \/ FetchResolve
  \/ FetchReject
  \/ BeforeUnload
  \/ PageHide
  \/ VisibilityHidden
  \/ VisibilityVisible

Spec == Init /\ [][Next]_vars

\* ------------------------------------ one tracker, two resources
\* The tracker is set up for resources of different sizes; records go to a
\* user callback only.
ResetupInit ==
  /\ Init
  /\ config.onBufferData
  /\ ~config.trafficEventUrl

SetupStartAny == SetupStartOf(Urls \cup {SmallUrl})

ResetupNext ==
  \/ Progress
  \/ TimeUpdate
  \/ SetupCached
  \/ SetupStartAny
  \/ SetupResolve
  \/ SetupReject
  \/ Destroy
  \/ BufferChange
  \/ CallbackResolve
  \/ CallbackReject
  \/ BeforeUnload
  \/ PageHide
  \/ VisibilityHidden

ResetupSpec == ResetupInit /\ [][ResetupNext]_vars

\* ------------------------------------ one tracker with a ledger
\* Records go to a user callback only; the ledger of each session is kept.
LedgerInit ==
  /\ config \in {c \in ConfigSpace : c.onBufferData /\ ~c.trafficEventUrl}
  /\ buffered \in TimeRanges
  /\ TrackerInit
  /\ call = NewLedger

LedgerNext ==
  \/ Progress
  \/ TimeUpdate
  \/ SetupCached
  \/ SetupStart
  \/ SetupResolve
  \/ SetupReject
  \/ Destroy
  \/ BufferChange
  \/ CallbackResolve
  \/ CallbackReject
  \/ BeforeUnload
  \/ PageHide
  \/ VisibilityHidden

LedgerSpec == LedgerInit /\ [][LedgerNext]_vars

\* ------------------------------------------- calls of the pure functions
\* Ranges as getBufferedRanges admits them: 0 <= start < end.
WellFormedRanges ==
  {r \in [start : 0..MergeMaxTime, end : 0..MergeMaxTime] : r.start < r.end}

RangeSeqs ==
  UNION {[1..n -> WellFormedRanges] : n \in 0..MaxRanges}

\* arg is the caller's array as it stands now; ranges keeps what was passed.
MergeCall(ranges, epsilon) ==
  [fn |-> "mergeRanges", ranges |-> ranges, epsilon |-> epsilon,
   done |-> FALSE, out |-> <<>>, again |-> FALSE, out2 |-> <<>>,
   arg |-> ranges]

MergeInit ==
  /\ config \in {c \in ConfigSpace : c.onBufferData /\ c.trafficEventUrl}
  /\ buffered = <<>>
  /\ TrackerInit
  /\ call \in {MergeCall(r, e) : r \in RangeSeqs, e \in 0..MaxEpsilon}

\* BufferCalculationService.mergeRanges(call.ranges, call.epsilon) returns.
CallMergeRanges ==
  /\ call.fn = "mergeRanges"
  /\ ~call.done
  /\ call' = [call EXCEPT !.done = TRUE,
                          !.out = mergeRanges(call.ranges, call.epsilon),
                          !.arg = mergeRangesArg(call.ranges, call.epsilon)]
  /\ UNCHANGED <<config, videoInfo, estimatedDownloadedBytes,
                 submittedBytesBaseline, hasSubmittedFullDownload,
                 lastProbedEnd, isTracking, isAttached, listeners, buffered,
                 cache, pendingSetups, inflight, obs, quiet, prevTotal,
                 failedDelta, destroyed>>

\* mergeRanges(call.out, call.epsilon) returns: the function applied to its
\* own result.
CallMergeRangesAgain ==
  /\ call.fn = "mergeRanges"
  /\ call.done
  /\ ~call.again
  /\ call' = [call EXCEPT !.again = TRUE,
                          !.out2 = mergeRanges(call.out, call.epsilon)]
  /\ UNCHANGED <<config, videoInfo, estimatedDownloadedBytes,
                 submittedBytesBaseline, hasSubmittedFullDownload,
                 lastProbedEnd, isTracking, isAttached, listeners, buffered,
                 cache, pendingSetups, inflight, obs, quiet, prevTotal,
                 failedDelta, destroyed>>

MergeNext ==
  \/ CallMergeRanges
  \/ CallMergeRangesAgain

MergeSpec == MergeInit /\ [][MergeNext]_vars

\* Calls of timeToByteRange: times from -1, duration and totalSize from -1.
ByteCall(startTime, endTime, duration, totalSize) ==
  [fn |-> "timeToByteRange", startTime |-> startTime, endTime |-> endTime,
   duration |-> duration, totalSize |-> totalSize,
   done |-> FALSE, out |-> NullRange,
   legacyDone |-> FALSE, legacyOut |-> NullRange]

ByteInit ==
  /\ config \in {c \in ConfigSpace : c.onBufferData /\ c.trafficEventUrl}
  /\ buffered = <<>>
  /\ TrackerInit
  /\ call \in {ByteCall(s, e, d, t) :
                 s \in -1..ByteMaxTime, e \in -1..ByteMaxTime,
                 d \in -1..ByteMaxTime, t \in -1..ByteMaxSize}

\* BufferCalculationService.timeToByteRange returns.
CallTimeToByteRange ==
  /\ call.fn = "timeToByteRange"
  /\ ~call.done
  /\ call' = [call EXCEPT !.done = TRUE,
                          !.out = timeToByteRange(call.startTime, call.endTime,
                                                  call.duration, call.totalSize)]
  /\ UNCHANGED <<config, videoInfo, estimatedDownloadedBytes,
                 submittedBytesBaseline, hasSubmittedFullDownload,
                 lastProbedEnd, isTracking, isAttached, listeners, buffered,
                 cache, pendingSetups, inflight, obs, quiet, prevTotal,
                 failedDelta, destroyed>>

\* timeToByteRange of the legacy tracker returns.
CallLegacyTimeToByteRange ==
  /\ call.fn = "timeToByteRange"
  /\ ~call.legacyDone
  /\ call' = [call EXCEPT !.legacyDone = TRUE,
                          !.legacyOut =
                             legacyTimeToByteRange(call.startTime, call.endTime,
                                                   call.duration, call.totalSize)]
  /\ UNCHANGED <<config, videoInfo, estimatedDownloadedBytes,
                 submittedBytesBaseline, hasSubmittedFullDownload,
                 lastProbedEnd, isTracking, isAttached, listeners, buffered,
                 cache, pendingSetups, inflight, obs, quiet, prevTotal,
                 failedDelta, destroyed>>

ByteNext ==
  \/ CallTimeToByteRange
  \/ CallLegacyTimeToByteRange

ByteSpec == ByteInit /\ [][ByteNext]_vars

\* Calls of isFullyDownloaded: up to CoverMaxRanges well-formed ranges in any
\* order, overlapping or not; duration from -1.
CoverRanges ==
  {r \in [start : 0..CoverMaxTime, end : 0..CoverMaxTime] : r.start < r.end}

CoverCall(ranges, duration, epsilon) ==
  [fn |-> "isFullyDownloaded", ranges |-> ranges, duration |-> duration,
   epsilon |-> epsilon, done |-> FALSE, out |-> FALSE, arg |-> ranges]

CoverInit ==
  /\ config \in {c \in ConfigSpace : c.onBufferData /\ c.trafficEventUrl}
  /\ buffered = <<>>
  /\ TrackerInit
  /\ call \in {CoverCall(r, d, e) :
                 r \in UNION {[1..n -> CoverRanges] : n \in 0..CoverMaxRanges},
                 d \in -1..CoverMaxDuration, e \in 0..MaxEpsilon}

\* BufferCalculationService.isFullyDownloaded returns.
CallIsFullyDownloaded ==
  /\ call.fn = "isFullyDownloaded"
  /\ ~call.done
  /\ call' = [call EXCEPT !.done = TRUE,
                          !.out = isFullyDownloaded(call.ranges, call.duration,
                                                    call.epsilon),
                          !.arg = IF call.duration <= 0 THEN call.ranges
                                  ELSE mergeRangesArg(call.ranges,
                                                      call.epsilon)]
  /\ UNCHANGED <<config, videoInfo, estimatedDownloadedBytes,
                 submittedBytesBaseline, hasSubmittedFullDownload,
                 lastProbedEnd, isTracking, isAttached, listeners, buffered,
                 cache, pendingSetups, inflight, obs, quiet, prevTotal,
                 failedDelta, destroyed>>

CoverNext == CallIsFullyDownloaded

CoverSpec == CoverInit /\ [][CoverNext]_vars

\* The two callers of calculateTotalBytes on one value of video.buffered.
TotalsRanges ==
  {PairUp(SetToSeq(S)) :
     S \in {X \in SUBSET (0..TotalsMaxTime) : Cardinality(X) % 2 = 0}}

TotalsCall(ranges, duration, totalSize, epsilon) ==
  [fn |-> "totalBytes", ranges |-> ranges, duration |-> duration,
   totalSize |-> totalSize, epsilon |-> epsilon, full |-> FALSE,
   progress |-> -1, final |-> -1]

TotalsInit ==
  /\ config \in {c \in ConfigSpace : c.onBufferData /\ c.trafficEventUrl}
  /\ buffered = <<>>
  /\ TrackerInit
  /\ call \in {TotalsCall(r, d, t, e) :
                 r \in {x \in TotalsRanges : Len(x) > 0},
                 d \in 1..TotalsMaxTime, t \in 1..TotalsMaxSize,
                 e \in 0..MaxEpsilon}
  /\ call.ranges[Len(call.ranges)].end <= call.duration

\* The progress handler from getBufferedRanges on: isFullyDownloaded is
\* given the array, then updateProgressEstimate passes the same array to
\* calculateTotalBytes (no total is computed on the full-coverage path).
CallProgressTotal ==
  /\ call.fn = "totalBytes"
  /\ call.progress = -1
  /\ ~call.full
  /\ LET ranges == getBufferedRanges(call.ranges) IN
     IF isFullyDownloaded(ranges, call.duration, call.epsilon)
     THEN call' = [call EXCEPT !.full = TRUE]
     ELSE call' = [call EXCEPT !.progress =
                     calculateTotalBytes(mergeRangesArg(ranges, call.epsilon),
                                         call.duration, call.totalSize)]
  /\ UNCHANGED <<config, videoInfo, estimatedDownloadedBytes,
                 submittedBytesBaseline, hasSubmittedFullDownload,
                 lastProbedEnd, isTracking, isAttached, listeners, buffered,
                 cache, pendingSetups, inflight, obs, quiet, prevTotal,
                 failedDelta, destroyed>>

\* performFinalProbe from getBufferedRanges on.
CallFinalTotal ==
  /\ call.fn = "totalBytes"
  /\ call.final = -1
  /\ call' = [call EXCEPT !.final =
                 calculateTotalBytes(getBufferedRanges(call.ranges),
                                     call.duration, call.totalSize)]
  /\ UNCHANGED <<config, videoInfo, estimatedDownloadedBytes,
                 submittedBytesBaseline, hasSubmittedFullDownload,
                 lastProbedEnd, isTracking, isAttached, listeners, buffered,
                 cache, pendingSetups, inflight, obs, quiet, prevTotal,
                 failedDelta, destroyed>>

TotalsNext == CallProgressTotal \/ CallFinalTotal

TotalsSpec == TotalsInit /\ [][TotalsNext]_vars

\* =================================================================== claims

\* C1 (as stated): a finalize trigger that follows a finalize trigger with
\* the buffered ranges unchanged in between emits no BufferData record and
\* leaves estimatedDownloadedBytes = 0.
C1_SecondTriggerLeavesZero ==
  obs.trigger /\ obs.again =>
    obs.rec = -1 /\ estimatedDownloadedBytes = 0

\* C1 (amended): such a second trigger emits no BufferData record; when it
\* evaluates the ranges it leaves estimatedDownloadedBytes = 0, and when it
\* returns at a guard it leaves estimatedDownloadedBytes as it was.
C1_NoDoubleCounting ==
  [][quiet /\ obs'.trigger =>
       /\ obs'.rec = -1
       /\ IF obs'.evaluated
          THEN estimatedDownloadedBytes' = 0
          ELSE estimatedDownloadedBytes' = estimatedDownloadedBytes]_vars

\* A second trigger evaluated unchanged ranges that an earlier trigger has
\* already counted into the baseline.
C1_Witness ==
  obs.trigger /\ obs.again /\ obs.evaluated /\ submittedBytesBaseline > 0

\* C2: in the step in which the delivery of a record produced by a final
\* probe fails (the callback rejects, or sendBufferData reports failure),
\* estimatedDownloadedBytes and lastProbedEnd are not reset and
\* submittedBytesBaseline has not been advanced to the totalBytes of the probe.
C2_NoResetOnFailedDelivery ==
  [][obs'.failed > 0 =>
       /\ estimatedDownloadedBytes' = estimatedDownloadedBytes
       /\ lastProbedEnd' = lastProbedEnd
       /\ submittedBytesBaseline' < prevTotal']_vars

\* C3: after the delivery of a finalize record failed, the next finalize
\* trigger of the session (ranges unchanged or grown, not finalized) emits a
\* record of at least the failed record's file_size.
C3_RetryAfterFailedDelivery ==
  [][failedDelta > 0 /\ isTracking /\ ~hasSubmittedFullDownload
       /\ obs'.trigger => obs'.rec >= failedDelta]_vars

C5_BaselineMonotone ==
  [][obs'.op # "Destroy" =>
       submittedBytesBaseline' >= submittedBytesBaseline]_vars

\* C6: while the delivery started by a finalize trigger is pending, a further
\* finalize trigger neither evaluates nor emits, so at most one finalize
\* emission is in flight.
C6_FinalizeGatedWhileInFlight ==
  /\ obs.trigger /\ obs.overlap => ~obs.evaluated /\ obs.rec = -1
  /\ Cardinality({i \in DOMAIN inflight : inflight[i].kind = "finalize"}) <= 1

\* C7: a finalize trigger that arrives in a session that is not finalized,
\* while the delivery of an earlier finalize record of the session is pending,
\* emits exactly totalBytes of the current ranges minus totalBytes of the
\* previous final probe, and no record when that is not positive.
C7_SecondRecordIsGrowth ==
  [][/\ obs'.trigger
     /\ FinalizeInFlight
     /\ prevTotal >= 0
     /\ ~hasSubmittedFullDownload
     => LET totalBytes == calculateTotalBytes(getBufferedRanges(buffered),
                                             videoInfo.duration,
                                             videoInfo.totalSize)
        IN  IF totalBytes - prevTotal > 0
            THEN obs'.rec = totalBytes - prevTotal
            ELSE obs'.rec = -1]_vars

\* A second record was emitted while the first was still being delivered.
C7_Witness ==
  obs.trigger /\ obs.overlap /\ obs.evaluated /\ obs.rec > 0

\* C8: after destroy() returned, every step other than a new call of
\* setupVideoTracking (a signal, or the completion of work that was pending
\* at destroy time) leaves ProgressState at its initial values
\* (estimatedDownloadedBytes 0, submittedBytesBaseline 0,
\* hasSubmittedFullDownload false, lastProbedEnd -1, isTracking false) and
\* neither evaluates the ranges nor produces a record.
C8_DestroySafeInFlight ==
  [][/\ destroyed
     /\ ~(Len(pendingSetups') > Len(pendingSetups))
     /\ ~(obs'.op = "SetupDone" /\ pendingSetups' = pendingSetups)
     => /\ estimatedDownloadedBytes' = 0
        /\ submittedBytesBaseline' = 0
        /\ ~hasSubmittedFullDownload'
        /\ lastProbedEnd' = -1
        /\ ~isTracking'
        /\ ~obs'.evaluated
        /\ obs'.rec = -1]_vars

\* The part of C8 about pending deliveries: from destroy() until a setup is
\* called or a setup that was pending at destroy time completes, the
\* completion of a pending handleBufferData call and every signal leave
\* ProgressState at its initial values.
C8_PendingDeliveryIgnored ==
  destroyed =>
    /\ estimatedDownloadedBytes = 0
    /\ submittedBytesBaseline = 0
    /\ ~hasSubmittedFullDownload
    /\ lastProbedEnd = -1
    /\ ~isTracking
    /\ ~obs.evaluated
    /\ obs.rec = -1

\* C9: when setupVideoTracking completes, ProgressState has its initial values.
C9_SetupResetsState ==
  obs.op = "SetupDone" =>
    /\ estimatedDownloadedBytes = 0
    /\ submittedBytesBaseline = 0
    /\ ~hasSubmittedFullDownload
    /\ lastProbedEnd = -1

\* C10: the output of mergeRanges is sorted ascending by start, pairwise
\* disjoint, with every gap between consecutive ranges greater than epsilon;
\* empty input gives empty output.
C10_MergeInvariant ==
  call.done =>
    /\ \A i \in 1..(Len(call.out) - 1) :
         /\ call.out[i].start < call.out[i + 1].start
         /\ call.out[i].end < call.out[i + 1].start
         /\ call.out[i + 1].start - call.out[i].end > call.epsilon
    /\ \A i \in DOMAIN call.out : call.out[i].start < call.out[i].end
    /\ (call.ranges = <<>> => call.out = <<>>)

\* Three ranges came in unsorted, two merged and two came out.
C10_Witness ==
  /\ call.done
  /\ Len(call.ranges) = 3
  /\ Len(call.out) = 2
  /\ call.ranges[1].start > call.ranges[2].start

\* C11: merge idempotence: mergeRanges applied to its own output with the
\* same epsilon returns that output unchanged.
C11_MergeIdempotent ==
  call.again => call.out2 = call.out

\* The first call merged three ranges into two, and the function was applied
\* again to those two.
C11_Witness ==
  /\ call.again
  /\ Len(call.ranges) = 3
  /\ Len(call.out) = 2
  /\ call.out[1] # call.ranges[1]

\* C12: the merge comparison is inclusive.  For two input ranges, a the one
\* the sort puts first: they come out as the single range
\* [a.start, max(a.end, b.end)] exactly when b.start - a.end <= epsilon, and
\* unchanged as two ranges otherwise.  For any input every input range lies
\* inside one output range.  With times in tenths of a second,
\* [0,10],[10.3,20] gives [0,20] with epsilon 0.5 and two ranges with 0.1.
C12_MergeInclusive ==
  /\ call.done /\ Len(call.ranges) = 2 =>
       LET first == IF call.ranges[2].start < call.ranges[1].start
                    THEN 2 ELSE 1
           a == call.ranges[first]
           b == call.ranges[3 - first]
       IN  IF b.start - a.end <= call.epsilon
           THEN call.out = <<BufferedRange(a.start, Max(a.end, b.end))>>
           ELSE call.out = <<a, b>>
  /\ call.done =>
       \A i \in DOMAIN call.ranges : \E j \in DOMAIN call.out :
          /\ call.out[j].start <= call.ranges[i].start
          /\ call.ranges[i].end <= call.out[j].end
  /\ mergeRanges(<<BufferedRange(0, 100), BufferedRange(103, 200)>>, 5)
       = <<BufferedRange(0, 200)>>
  /\ mergeRanges(<<BufferedRange(0, 100), BufferedRange(103, 200)>>, 1)
       = <<BufferedRange(0, 100), BufferedRange(103, 200)>>

\* A tie: two ranges whose gap equals epsilon > 0 came out as one.
C12_Witness ==
  /\ call.done
  /\ Len(call.ranges) = 2
  /\ call.epsilon > 0
  /\ call.ranges[2].start - call.ranges[1].end = call.epsilon
  /\ Len(call.out) = 1

\* The call timeToByteRange(0, duration, duration, totalSize), duration > 0
\* and totalSize > 0, of either class.
BoundaryCall ==
  /\ call.fn = "timeToByteRange"
  /\ call.duration > 0
  /\ call.totalSize > 0
  /\ call.startTime = 0
  /\ call.endTime = call.duration

\* C13 (as stated): for every duration > 0 and totalSize > 0,
\* timeToByteRange(0, duration, duration, totalSize) is the byte range
\* [0, totalSize - 1].
C13_BoundaryCoversAll ==
  /\ BoundaryCall /\ call.done =>
       call.out = [start |-> 0, end |-> call.totalSize - 1]
  /\ BoundaryCall /\ call.legacyDone =>
       call.legacyOut = [start |-> 0, end |-> call.totalSize - 1]

\* C13 (amended): for every duration > 0,
\* timeToByteRange(0, duration, duration, totalSize) is [0, totalSize - 1]
\* when totalSize >= 2 and null when totalSize = 1 (end byte 0 is not above
\* start byte 0); the same for the legacy function.
C13_BoundaryAmended ==
  /\ BoundaryCall /\ call.done =>
       call.out = IF call.totalSize >= 2
                  THEN [start |-> 0, end |-> call.totalSize - 1]
                  ELSE NullRange
  /\ BoundaryCall /\ call.legacyDone =>
       call.legacyOut = IF call.totalSize >= 2
                        THEN [start |-> 0, end |-> call.totalSize - 1]
                        ELSE NullRange

\* Both functions returned for a whole-duration call with totalSize >= 2.
C13_Witness ==
  /\ BoundaryCall
  /\ call.done
  /\ call.legacyDone
  /\ call.totalSize >= 2
  /\ call.out.end = call.totalSize - 1

\* C14: timeToByteRange returns null whenever duration <= 0 or
\* totalSize <= 0, and (as the code adds) whenever the times are not a time
\* range, startTime < 0 or endTime <= startTime.  For a time range with
\* duration > 0 and totalSize > 0, with startByte = floor(start/duration *
\* totalSize) and endByte = min(totalSize - 1, floor(end/duration *
\* totalSize)): it returns null when endByte <= startByte and otherwise
\* [startByte, endByte], where 0 <= startByte < endByte <= totalSize - 1.
C14_ByteRangeContract ==
  call.fn = "timeToByteRange" /\ call.done =>
    IF \/ call.duration <= 0
       \/ call.totalSize <= 0
       \/ call.startTime < 0
       \/ call.endTime <= call.startTime
    THEN call.out = NullRange
    ELSE LET startByte == (call.startTime * call.totalSize) \div call.duration
             floored == (call.endTime * call.totalSize) \div call.duration
             endByte == IF floored < call.totalSize - 1
                        THEN floored ELSE call.totalSize - 1
         IN  IF endByte <= startByte
             THEN call.out = NullRange
             ELSE /\ call.out = [start |-> startByte, end |-> endByte]
                  /\ 0 <= call.out.start
                  /\ call.out.start < call.out.end
                  /\ call.out.end <= call.totalSize - 1

\* A time range ending after the duration was converted: its end byte was
\* clamped to totalSize - 1.
C14_Witness ==
  /\ call.fn = "timeToByteRange"
  /\ call.done
  /\ call.startTime > 0
  /\ call.endTime > call.duration
  /\ call.out # NullRange
  /\ call.out.start > 0
  /\ call.out.end = call.totalSize - 1

\* timeToByteRange returned null for a non-positive duration or totalSize.
C14_NullWitness ==
  /\ call.fn = "timeToByteRange"
  /\ call.done
  /\ call.duration < 0
  /\ call.startTime >= 0
  /\ call.endTime > call.startTime
  /\ call.totalSize > 0
  /\ call.out = NullRange

\* The time covered by the ranges merged with epsilon, counted in unit cells
\* [t, t + 1] that lie inside a merged range.
MergedCoverage(ranges, epsilon) ==
  LET merged == mergeRanges(ranges, epsilon) IN
  Cardinality({t \in 0..(CoverMaxTime - 1) :
                 \E j \in DOMAIN merged :
                    merged[j].start <= t /\ t + 1 <= merged[j].end})

\* C15: isFullyDownloaded(ranges, duration, epsilon) is true exactly when
\* ranges is not empty, duration > 0 and the time covered by the ranges
\* merged with that epsilon is >= duration - epsilon.
C15_FullyDownloadedContract ==
  call.fn = "isFullyDownloaded" /\ call.done =>
    (call.out <=>
       /\ Len(call.ranges) > 0
       /\ call.duration > 0
       /\ MergedCoverage(call.ranges, call.epsilon)
            >= call.duration - call.epsilon)

\* Two ranges with a gap that only the merge closes were classified full:
\* without the merge their lengths stay below duration - epsilon.
C15_Witness ==
  /\ call.fn = "isFullyDownloaded"
  /\ call.done
  /\ call.out
  /\ Len(call.ranges) = 2
  /\ call.epsilon > 0
  /\ MergedCoverage(call.ranges, 0) < call.duration - call.epsilon

\* The sum of the lengths of the ranges as given, not merged.
RECURSIVE RawLength(_)
RawLength(ranges) ==
  IF ranges = <<>> THEN 0
  ELSE (Head(ranges).end - Head(ranges).start) + RawLength(Tail(ranges))

\* C16 (as stated): for epsilon > 0, ranges whose lengths sum to
\* duration - epsilon/2 are classified as fully covered and ranges whose
\* lengths sum to duration - 2*epsilon are not; stated here for range sets
\* as the media element reports them, not empty, ascending and disjoint.
C16_ShortCircuitRawSum ==
  /\ call.fn = "isFullyDownloaded" /\ call.done /\ call.epsilon > 0
  /\ Len(call.ranges) > 0
  /\ \A i \in 1..(Len(call.ranges) - 1) :
        call.ranges[i].end < call.ranges[i + 1].start
  =>
    /\ 2 * RawLength(call.ranges) = 2 * call.duration - call.epsilon
         => call.out
    /\ RawLength(call.ranges) = call.duration - 2 * call.epsilon
         => ~call.out

\* C16 (amended): for epsilon > 0, a non-empty range set whose ranges merged
\* with epsilon cover duration - epsilon/2 is classified as fully covered,
\* and a range set whose merged ranges cover duration - 2*epsilon is not.
C16_ShortCircuitMerged ==
  call.fn = "isFullyDownloaded" /\ call.done /\ call.epsilon > 0 =>
    /\ /\ Len(call.ranges) > 0
       /\ 2 * MergedCoverage(call.ranges, call.epsilon)
            = 2 * call.duration - call.epsilon
       => call.out
    /\ MergedCoverage(call.ranges, call.epsilon)
         = call.duration - 2 * call.epsilon
       => ~call.out

\* Two ranges covering duration - epsilon/2 after the merge were classified
\* as fully covered.
C16_Witness ==
  /\ call.fn = "isFullyDownloaded"
  /\ call.done
  /\ call.epsilon > 0
  /\ Len(call.ranges) = 2
  /\ 2 * MergedCoverage(call.ranges, call.epsilon)
       = 2 * call.duration - call.epsilon
  /\ call.out

\* A progress signal finds the tracker tracking and not finalized, duration
\* and totalSize known, ranges buffered and not fully covered.
ProgressEstimates ==
  /\ ~HandlerGuard
  /\ videoInfo.duration # 0
  /\ videoInfo.totalSize # 0
  /\ Len(getBufferedRanges(buffered)) > 0
  /\ ~isFullyDownloaded(getBufferedRanges(buffered), videoInfo.duration,
                        config.rangeMergeEpsilon)

\* C17: throttle gate: a progress signal that is not fully covered, arriving
\* with lastProbedEnd >= 0 and the end of the last range less than the
\* throttle interval beyond lastProbedEnd, changes none of
\* estimatedDownloadedBytes, lastProbedEnd, submittedBytesBaseline and
\* hasSubmittedFullDownload, and emits no record.
C17_ThrottleGate ==
  [][/\ obs'.op = "Progress"
     /\ ProgressEstimates
     /\ lastProbedEnd >= 0
     /\ buffered[Len(buffered)].end - lastProbedEnd < config.progressThrottle
     => /\ estimatedDownloadedBytes' = estimatedDownloadedBytes
        /\ lastProbedEnd' = lastProbedEnd
        /\ submittedBytesBaseline' = submittedBytesBaseline
        /\ hasSubmittedFullDownload' = hasSubmittedFullDownload
        /\ obs'.rec = -1]_vars

\* A progress signal was throttled: the last range ends beyond
\* lastProbedEnd, by less than the interval, and lastProbedEnd was kept.
C17_Witness ==
  /\ obs.op = "Progress"
  /\ obs.evaluated
  /\ ~obs.full
  /\ lastProbedEnd >= 0
  /\ Len(buffered) > 0
  /\ buffered[Len(buffered)].end > lastProbedEnd
  /\ buffered[Len(buffered)].end - lastProbedEnd < config.progressThrottle

\* A progress signal finds the tracker tracking and not finalized and the
\* buffered ranges fully covered.
ProgressFullyCovered ==
  /\ ~HandlerGuard
  /\ videoInfo.duration # 0
  /\ videoInfo.totalSize # 0
  /\ Len(getBufferedRanges(buffered)) > 0
  /\ isFullyDownloaded(getBufferedRanges(buffered), videoInfo.duration,
                       config.rangeMergeEpsilon)

\* C18: full-coverage path: a progress signal that finds the tracker
\* tracking, not finalized and the ranges fully covered sets
\* hasSubmittedFullDownload, emits a record whose file_size is totalSize
\* minus the baseline held before the signal, and leaves that value in
\* estimatedDownloadedBytes while the record's delivery is pending (with no
\* sink configured the emission completes at once and resets it to 0).
C18_FullCoveragePath ==
  [][obs'.op = "Progress" /\ ProgressFullyCovered
     => /\ hasSubmittedFullDownload'
        /\ obs'.rec >= 0
        /\ obs'.rec = videoInfo.totalSize - submittedBytesBaseline
        /\ estimatedDownloadedBytes' =
             IF config.onBufferData \/ config.trafficEventUrl
             THEN obs'.rec ELSE 0]_vars

\* C19: emission sinks are failure-isolated: with both a user callback and
\* a network delivery configured, every emitted record is handed to the
\* callback whatever becomes of the network delivery, and when the callback
\* fails the network delivery of the record is still attempted.
C19_SinksFailureIsolated ==
  [][config.onBufferData /\ config.trafficEventUrl
     => /\ obs'.rec >= 0 => obs'.sinkCb
        /\ obs'.op = "CallbackReject" => obs'.sinkNet]_vars

\* The input a signal needs is unavailable: the duration is unset, NaN or 0
\* (setupVideoTracking stores all three as 0), the total size is 0, or the
\* media source reports no buffered ranges.
InputUnavailable ==
  \/ videoInfo.duration = 0
  \/ videoInfo.totalSize = 0
  \/ Len(getBufferedRanges(buffered)) = 0

\* C20: unavailable input is a silent no-op: with the duration 0, the total
\* size 0 or no buffered ranges, every progress, time-update and finalize
\* signal leaves estimatedDownloadedBytes, submittedBytesBaseline,
\* hasSubmittedFullDownload and lastProbedEnd unchanged, emits no record and
\* starts no delivery.
C20_UnavailableInputNoOp ==
  [][obs'.op \in {"Progress", "TimeUpdate", "Finalize"} /\ InputUnavailable
     => /\ estimatedDownloadedBytes' = estimatedDownloadedBytes
        /\ submittedBytesBaseline' = submittedBytesBaseline
        /\ hasSubmittedFullDownload' = hasSubmittedFullDownload
        /\ lastProbedEnd' = lastProbedEnd
        /\ inflight' = inflight
        /\ obs'.rec = -1]_vars

\* A finalize signal passed the handler's guard with an estimate held and
\* no ranges buffered.
C20_Witness ==
  /\ obs.op = "Finalize"
  /\ obs.trigger
  /\ ~obs.evaluated
  /\ isTracking
  /\ ~hasSubmittedFullDownload
  /\ videoInfo.duration # 0
  /\ Len(getBufferedRanges(buffered)) = 0
  /\ estimatedDownloadedBytes > 0

\* The byte total of the ranges buffered now.
CurrentTotalBytes ==
  calculateTotalBytes(getBufferedRanges(buffered), videoInfo.duration,
                      videoInfo.totalSize)

\* C21: estimatedDownloadedBytes is always a delta against the baseline:
\* with submittedBytesBaseline > 0, a progress, time-update or finalize
\* signal that evaluates the ranges and writes a new non-zero value to
\* estimatedDownloadedBytes writes the byte total of the current ranges
\* (totalSize on the full-coverage path) minus submittedBytesBaseline.
C21_EstimateIsDelta ==
  [][/\ submittedBytesBaseline > 0
     /\ obs'.op \in {"Progress", "TimeUpdate", "Finalize"}
     /\ obs'.evaluated
     /\ estimatedDownloadedBytes' # estimatedDownloadedBytes
     /\ estimatedDownloadedBytes' # 0
     => estimatedDownloadedBytes' =
          (IF obs'.full THEN videoInfo.totalSize ELSE CurrentTotalBytes)
          - submittedBytesBaseline]_vars

\* C22: in every reachable state estimatedDownloadedBytes >= 0 and
\* submittedBytesBaseline >= 0.
C22_NonNegative ==
  estimatedDownloadedBytes >= 0 /\ submittedBytesBaseline >= 0

\* C23: a failed setup aborts without side effects: neither the part of
\* setupVideoTracking that runs before the size probe nor the failure
\* itself (invalid element or URL, failed size probe) changes
\* ProgressState, videoInfo, isTracking or the attached listeners.
C23_FailedSetupNoSideEffects ==
  [][obs'.op \in {"SetupStart", "SetupFailed"}
     => /\ estimatedDownloadedBytes' = estimatedDownloadedBytes
        /\ submittedBytesBaseline' = submittedBytesBaseline
        /\ hasSubmittedFullDownload' = hasSubmittedFullDownload
        /\ lastProbedEnd' = lastProbedEnd
        /\ videoInfo' = videoInfo
        /\ isTracking' = isTracking
        /\ isAttached' = isAttached
        /\ listeners' = listeners]_vars

\* A setup failed while a session with an estimate was being tracked.
C23_Witness ==
  /\ obs.op = "SetupFailed"
  /\ isTracking
  /\ videoInfo # NoVideo
  /\ estimatedDownloadedBytes > 0
  /\ listeners.progress > 0

\* C24: destroy() cleans up all resources: after destroy() none of the
\* progress, timeupdate, beforeunload, pagehide and visibilitychange
\* listeners registered by attach() remains registered.
C24_DestroyRemovesListeners ==
  [][obs'.op = "Destroy" => listeners' = NoListeners]_vars

\* C25: destroy() returns the tracker to Idle: immediately after destroy()
\* isTracking is false, there is no videoInfo, estimatedDownloadedBytes and
\* submittedBytesBaseline are 0, hasSubmittedFullDownload is false and
\* lastProbedEnd is -1.
C25_DestroyReturnsToIdle ==
  [][obs'.op = "Destroy"
     => /\ ~isTracking'
        /\ videoInfo' = NoVideo
        /\ estimatedDownloadedBytes' = 0
        /\ submittedBytesBaseline' = 0
        /\ ~hasSubmittedFullDownload'
        /\ lastProbedEnd' = -1]_vars

\* destroy() ran on a tracker that had a record's delivery pending.
C25_Witness ==
  /\ obs.op = "Destroy"
  /\ Len(inflight) > 0
  /\ ~isTracking
  /\ submittedBytesBaseline = 0

\* C26: in every state in which tracking is active the videoInfo held by
\* the tracker has duration > 0 and totalSize > 0.
C26_ActiveProfilePositive ==
  isTracking => videoInfo.duration > 0 /\ videoInfo.totalSize > 0

\* C26, second part: no progress, time-update or finalize signal modifies
\* videoInfo.
C26_SignalsKeepProfile ==
  [][obs'.op \in {"Progress", "TimeUpdate", "Finalize"}
     => videoInfo' = videoInfo]_vars

\* C27: byte totals are consistent across callers: for the same buffered
\* ranges, duration and totalSize, the totalBytes computed on the progress
\* path equals the totalBytes computed on the finalize path.
C27_TotalsConsistent ==
  call.fn = "totalBytes" /\ call.progress >= 0 /\ call.final >= 0
  => call.progress = call.final

\* C28: the partial-progress path never emits: a progress signal whose
\* ranges are not fully covered dispatches no record to the callback or the
\* network sink, starts no delivery, and leaves submittedBytesBaseline and
\* hasSubmittedFullDownload unchanged.
C28_PartialProgressNeverEmits ==
  [][obs'.op = "Progress" /\ ProgressEstimates
     => /\ obs'.rec = -1
        /\ ~obs'.sinkCb
        /\ ~obs'.sinkNet
        /\ inflight' = inflight
        /\ submittedBytesBaseline' = submittedBytesBaseline
        /\ hasSubmittedFullDownload' = hasSubmittedFullDownload]_vars

\* A partial progress signal updated the estimate and lastProbedEnd of a
\* tracker with a sink configured.
C28_Witness ==
  /\ obs.op = "Progress"
  /\ obs.evaluated
  /\ ~obs.full
  /\ config.onBufferData
  /\ estimatedDownloadedBytes > 0
  /\ Len(buffered) > 0
  /\ lastProbedEnd = buffered[Len(buffered)].end

\* C29: finalize computation: with totalBytes the byte total of the current
\* ranges, a final probe sets estimatedDownloadedBytes to
\* max(0, totalBytes - submittedBytesBaseline), which is the file_size of
\* the record it emits when positive (with no sink configured the emission
\* completes at once and resets the estimate to 0), and sets
\* hasSubmittedFullDownload if and only if totalBytes >= totalSize.
C29_FinalizeComputation ==
  [][obs'.trigger /\ obs'.evaluated
     => LET delta == Max(0, CurrentTotalBytes - submittedBytesBaseline) IN
        /\ obs'.rec = (IF delta > 0 THEN delta ELSE -1)
        /\ estimatedDownloadedBytes' =
             IF config.onBufferData \/ config.trafficEventUrl
             THEN delta ELSE 0
        /\ hasSubmittedFullDownload' =
             (hasSubmittedFullDownload
                \/ CurrentTotalBytes >= videoInfo.totalSize)
        /\ ~hasSubmittedFullDownload]_vars

\* A final probe reached totalSize with a baseline already submitted: the
\* record is smaller than totalSize and the session is finalized.
C29_Witness ==
  /\ obs.op = "Finalize"
  /\ obs.evaluated
  /\ hasSubmittedFullDownload
  /\ obs.rec > 0
  /\ obs.rec < videoInfo.totalSize
  /\ estimatedDownloadedBytes = obs.rec

\* A final probe below totalSize left the session open.
C29_OpenWitness ==
  /\ obs.trigger
  /\ obs.evaluated
  /\ ~hasSubmittedFullDownload
  /\ obs.rec > 0

\* The step completes, successfully, the delivery of the record of final
\* probe i of the current session.
DeliveryCompletes(i) ==
  /\ inflight[i].kind = "finalize"
  /\ inflight' = Remove(inflight, i)
  /\ obs'.op \in {"FetchResolve", "CallbackResolve"}

\* C30: post-emission reset: once a finalize whose record was dispatched
\* successfully has completed, submittedBytesBaseline equals the totalBytes
\* computed by that finalize, estimatedDownloadedBytes = 0 and
\* lastProbedEnd = -1.
C30_PostEmissionReset ==
  [][\A i \in DOMAIN inflight :
       DeliveryCompletes(i)
       => /\ submittedBytesBaseline' = inflight[i].total
          /\ estimatedDownloadedBytes' = 0
          /\ lastProbedEnd' = -1]_vars

\* C30, the part about the estimate: the completion resets
\* estimatedDownloadedBytes and lastProbedEnd, so that the throttle test of
\* the next progress signal is false.
C30_CompletionResetsEstimate ==
  [][\A i \in DOMAIN inflight :
       DeliveryCompletes(i)
       => /\ estimatedDownloadedBytes' = 0
          /\ lastProbedEnd' = -1
          /\ ~(lastProbedEnd' >= 0)]_vars

\* C31: a BufferData record is produced only when estimatedDownloadedBytes
\* > 0: every record built by a step, and so every record handed to the
\* user callback or the network sink, has file_size > 0.
C31_RecordsArePositive ==
  /\ obs.rec # -1 => obs.rec > 0
  /\ obs.op \in {"Progress", "TimeUpdate", "Finalize"}
       /\ (obs.sinkCb \/ obs.sinkNet)
     => obs.rec > 0

\* The full-coverage path handed a record to the user callback.
C31_Witness ==
  /\ obs.op = "Progress"
  /\ obs.full
  /\ obs.sinkCb
  /\ obs.rec > 0

\* A final probe computed a delta of 0 and produced no record.
C31_SuppressedWitness ==
  /\ obs.trigger
  /\ obs.evaluated
  /\ obs.rec = -1
  /\ ~obs.sinkCb
  /\ ~obs.sinkNet
  /\ config.onBufferData

\* C32: near-end trigger: on a time-update signal that finds the tracker
\* tracking, not finalized and with a known duration, the final probe is
\* invoked if and only if duration - currentTime <= finalProbeThreshold;
\* otherwise the signal changes no state.
C32_NearEndTrigger ==
  [][obs'.op = "TimeUpdate" /\ ~HandlerGuard /\ videoInfo.duration # 0
     => /\ obs'.remaining \in {videoInfo.duration - t : t \in PlaybackTimes}
        /\ obs'.trigger <=> obs'.remaining <= config.finalProbeThreshold
        /\ ~obs'.trigger
           => UNCHANGED <<videoInfo, estimatedDownloadedBytes,
                          submittedBytesBaseline, hasSubmittedFullDownload,
                          lastProbedEnd, isTracking, inflight>>]_vars

\* A time-update with exactly finalProbeThreshold remaining invoked the
\* final probe, which emitted a record.
C32_Witness ==
  /\ obs.op = "TimeUpdate"
  /\ obs.trigger
  /\ obs.remaining = config.finalProbeThreshold
  /\ obs.rec > 0

\* A time-update far from the end changed nothing.
C32_FarWitness ==
  /\ obs.op = "TimeUpdate"
  /\ ~obs.trigger
  /\ obs.remaining > config.finalProbeThreshold
  /\ isTracking

\* What a finalize trigger emits and leaves behind, as a function of the
\* state without lastProbedEnd.
FinalizeOutcome ==
  IF \/ ~isTracking
     \/ hasSubmittedFullDownload
     \/ videoInfo = NoVideo
     \/ videoInfo.duration = 0
     \/ videoInfo.totalSize = 0
     \/ Len(getBufferedRanges(buffered)) = 0
  THEN [rec |-> -1, baseline |-> submittedBytesBaseline,
        flag |-> hasSubmittedFullDownload]
  ELSE [rec |-> IF CurrentTotalBytes > submittedBytesBaseline
                THEN CurrentTotalBytes - submittedBytesBaseline ELSE -1,
        baseline |-> CurrentTotalBytes,
        flag |-> CurrentTotalBytes >= videoInfo.totalSize]

\* The same for a fully covered progress signal.
FullCoverageOutcome ==
  [rec |-> IF videoInfo.totalSize > submittedBytesBaseline
           THEN videoInfo.totalSize - submittedBytesBaseline ELSE -1,
   baseline |-> submittedBytesBaseline,
   flag |-> TRUE]

\* The record, baseline and flag a step ends with.
Outcome ==
  [rec |-> obs.rec, baseline |-> submittedBytesBaseline,
   flag |-> hasSubmittedFullDownload]

\* C33: lastProbedEnd does not influence reported bytes: the record a
\* finalize trigger or a fully covered progress signal emits, and the
\* submittedBytesBaseline and hasSubmittedFullDownload it ends with, are
\* determined by the rest of the state, so two states that differ only in
\* lastProbedEnd give the same record, baseline and flag.
C33_ProbedEndDoesNotInfluence ==
  [][/\ obs'.op = "Finalize" => Outcome' = FinalizeOutcome
     /\ obs'.op = "Progress" /\ ProgressFullyCovered
        => Outcome' = FullCoverageOutcome]_vars

\* A finalize trigger emitted a record from a state in which a progress
\* signal had set lastProbedEnd and a baseline had been submitted.
C33_Witness ==
  /\ obs.op = "Finalize"
  /\ obs.rec > 0
  /\ lastProbedEnd >= 0
  /\ submittedBytesBaseline > obs.rec

\* A finalize trigger emitted a record from a state with lastProbedEnd -1.
C33_UnsetWitness ==
  /\ obs.op = "Finalize"
  /\ obs.rec > 0
  /\ lastProbedEnd = -1
  /\ Len(inflight) > 0
  /\ submittedBytesBaseline > obs.rec

\* C34: within one tracking session, whatever signals arrive and however the
\* buffered ranges evolve, the sum of file_size over the records emitted
\* never exceeds the totalSize of the resource.
C34_ReportedWithinTotalSize ==
  call.fn = "ledger" /\ videoInfo # NoVideo
    => call.sum <= videoInfo.totalSize

\* C35: conservation across finalize calls: while the totalBytes of the
\* final probes of a session never decreased and stayed below totalSize, the
\* sum of file_size over the records produced so far equals the totalBytes of
\* the most recent final probe.
C35_Conservation ==
  call.fn = "ledger" /\ call.mono /\ prevTotal >= 0
    => call.sum = prevTotal

\* The same, for sessions that opened with nothing submitted before.
C35_ConservationFromClean ==
  call.fn = "ledger" /\ call.mono /\ call.clean /\ prevTotal >= 0
    => call.sum = prevTotal

\* A second final probe of such a session found the total it had already
\* submitted and produced no record.
C35_CleanWitness ==
  /\ call.fn = "ledger" /\ call.mono /\ call.clean
  /\ obs.trigger /\ obs.evaluated /\ obs.rec < 0
  /\ prevTotal > 0
  /\ call.sum = prevTotal

\* C36: destroy() cancels a setup that is in flight: when the size probe of
\* a setupVideoTracking call that was suspended at destroy time resolves,
\* the tracker stays idle: not tracking, no resource profile, and no
\* listener attached by the step.
C36_DestroyCancelsSetup ==
  [][/\ destroyed
     /\ obs'.op = "SetupDone"
     /\ Len(pendingSetups') < Len(pendingSetups)
     => /\ ~isTracking'
        /\ videoInfo' = NoVideo
        /\ ~isAttached'
        /\ listeners' = listeners]_vars

\* C37: mergeRanges and isFullyDownloaded do not modify their input: after
\* the call every range object of the array the caller passed has the start
\* and end it had before the call.
C37_InputUnmodified ==
  call.fn \in {"mergeRanges", "isFullyDownloaded"} /\ call.done
    => call.arg = call.ranges

\* C38: for pairwise disjoint ranges within [0, duration], duration > 0 and
\* totalSize > 0, calculateTotalBytes(ranges, duration, totalSize) is at
\* most totalSize.
C38_TotalWithinTotalSize ==
  call.fn = "totalBytes" /\ call.final >= 0
    => call.final <= call.totalSize

\* What the sum does satisfy: each range after the first can count again
\* the byte in which its predecessor ended.
C38_TotalWithinSharedBytes ==
  call.fn = "totalBytes" /\ call.final >= 0
    => call.final <= call.totalSize + Len(call.ranges) - 1
====
